---- MODULE Spec2Model ----
(***************************************************************************)
(* Model of src/src/metaverse_builder.py: the MetaverseBuilder class, its  *)
(* three SQLite tables, the process-wide random source and the wall clock  *)
(* the ids are derived from.                                               *)
(*                                                                         *)
(* Numbers: coordinates, scales and timestamps are integers.  The clock is *)
(* counted in milliseconds since the process started, which is the         *)
(* resolution of int(datetime.now().timestamp() * 1000).                   *)
(***************************************************************************)
EXTENDS Integers, Sequences, FiniteSets, TLC

VARIABLES worlds, world_objects, player_positions, durable, clock, rng,
          history, last

vars == <<worlds, world_objects, player_positions, durable, clock, rng,
          history, last>>

store == <<worlds, world_objects, player_positions, durable>>

(***************************************************************************)
(* Bounds of the model.                                                    *)
(***************************************************************************)
MaxCalls == 3
MaxReadCalls == 3
MaxTeleports == 4
MaxGenCalls == 3
MaxTerrainCalls == 4
MaxWorlds == 2

(***************************************************************************)
(* Program constants.                                                      *)
(***************************************************************************)
THEMES == {"cyberpunk", "fantasy", "space", "underwater", "desert", "arctic",
           "jungle", "neon"}

OBJECT_TYPES == {"building", "tree", "light", "terrain", "water", "vehicle",
                 "npc", "portal", "artifact"}

THEME_COLORS(theme) ==
    CASE theme = "cyberpunk" -> "#FF00FF"
      [] theme = "fantasy" -> "#8B4513"
      [] theme = "space" -> "#000080"
      [] theme = "underwater" -> "#0000CD"
      [] theme = "desert" -> "#F4A460"
      [] theme = "arctic" -> "#F0F8FF"
      [] theme = "jungle" -> "#228B22"
      [] theme = "neon" -> "#FFFF00"
      [] OTHER -> "#FFFFFF"

_get_terrain_color(theme) ==
    CASE theme = "cyberpunk" -> "#1a1a2e"
      [] theme = "fantasy" -> "#8B7355"
      [] theme = "space" -> "#1a1a3a"
      [] theme = "underwater" -> "#006994"
      [] theme = "desert" -> "#C2B280"
      [] theme = "arctic" -> "#FFFAFA"
      [] theme = "jungle" -> "#355C3D"
      [] theme = "neon" -> "#00FF00"
      [] OTHER -> "#808080"

TileSize == 256
SeedMax == 1000000
HeightMin == 0 - 10
HeightMax == 50
NumBuildings == 8
NumTrees == 15
NumLights == 4

\* Python's None.
None == [none |-> TRUE]

(***************************************************************************)
(* The random module.  The Mersenne Twister is abstracted to a linear      *)
(* congruential generator over RngMod states: what the program relies on   *)
(* is kept (one process-wide state, seed() resets it to a function of the  *)
(* seed, every draw advances it).                                          *)
(***************************************************************************)
RngMod == 64

\* random.seed(s)
RandomSeed(s) == s % RngMod

\* The state after one draw.
RandomStep(r) == (13 * r + 11) % RngMod

\* random.randint(a, b) drawn from state r (the state after the draw is
\* RandomStep(r)).
RandInt(r, a, b) == a + (RandomStep(r) % (b - a + 1))

\* random.uniform(a, b) = a + (b - a) * random(), random() in [0, 1).
RandUniform(r, a, b) == a + (((b - a) * RandomStep(r)) \div RngMod)

(***************************************************************************)
(* The clock.  Two consecutive readings of datetime.now() are either in    *)
(* the same millisecond or one millisecond apart.                          *)
(***************************************************************************)
Ticks == {0, 1}

Max(a, b) == IF a >= b THEN a ELSE b

\* The tick sequences of a call that reads the clock n times.  A call stops
\* at the first insert that is rejected, and an insert made in the same
\* millisecond as the one before it is rejected, so a sequence is determined
\* by its first tick d0 and the position k of its first repeated reading
\* (k = n + 1: none).
Schedules(n) ==
    { [i \in 1..n |-> IF i = k THEN 0 ELSE IF i = 1 THEN d0 ELSE 1] :
        d0 \in Ticks, k \in 2..(Max(n, 1) + 1) }

(***************************************************************************)
(* Rows and ids.                                                           *)
(***************************************************************************)
\* f"world_{int(now * 1000)}" and f"obj_{int(now * 1000)}"
WorldId(now) == <<"world", now>>
ObjId(now) == <<"obj", now>>

Range(s) == { s[i] : i \in 1..Len(s) }

\* PRIMARY KEY of worlds and of world_objects: the id column.
HasId(tbl, id) == \E i \in 1..Len(tbl) : tbl[i].id = id

\* A player_positions table without its primary key.
HasPosition_NoKey(tbl, player_id, world_id) == FALSE

\* PRIMARY KEY (player_id, world_id) of player_positions.
HasPosition(tbl, player_id, world_id) ==
    \E i \in 1..Len(tbl) :
        tbl[i].player_id = player_id /\ tbl[i].world_id = world_id

\* The commit left out.
Commit_Missing(view, committed) == committed

\* conn.commit(): the connection's view of a table becomes the durable one.
Commit(view, committed) == view

(***************************************************************************)
(* json.dumps / json.loads of the keyword arguments.  The keyword          *)
(* arguments are a sequence of <<key, value>> pairs in call order with     *)
(* distinct keys; the serialized text keeps the pairs in that order and    *)
(* loading it gives back a mapping.                                        *)
(***************************************************************************)
PropKeys(props) == { props[i][1] : i \in 1..Len(props) }

\* props.get(key, default)
PropGet(props, key, default) ==
    IF key \in PropKeys(props)
    THEN props[CHOOSE i \in 1..Len(props) : props[i][1] = key][2]
    ELSE default

IsExtraProp(pr) == pr[1] \notin {"scale", "rotation", "color"}

JsonDumps(props) == SelectSeq(props, IsExtraProp)

JsonLoads(text) == [k \in PropKeys(text) |-> PropGet(text, k, None)]

(***************************************************************************)
(* get_world: the world row with the objects that carry its id, or None.   *)
(* MetaverseWorld is built positionally from the seven columns of the row, *)
(* so the sixth column (created_at) lands in objects, which                *)
(* is then replaced by the loaded list, and the seventh (description) in   *)
(* created_at; description keeps its default.                              *)
(***************************************************************************)
WorldObject(r) ==
    [id |-> r.id, type |-> r.type, name |-> r.name, x |-> r.x, y |-> r.y,
     z |-> r.z, scale |-> r.scale, rotation |-> r.rotation, color |-> r.color,
     properties |-> JsonLoads(r.properties)]

ObjectsOf(objs, world_id) ==
    LET Mine(r) == r.world_id = world_id IN SelectSeq(objs, Mine)

LoadObjects(objs, world_id) ==
    LET rows == ObjectsOf(objs, world_id)
    IN  [i \in 1..Len(rows) |-> WorldObject(rows[i])]

\* The world row as get_world returns it, its objects left aside.
FindWorld(ws, world_id) ==
    IF HasId(ws, world_id)
    THEN LET row == ws[CHOOSE i \in 1..Len(ws) : ws[i].id = world_id]
         IN  [id |-> row.id, name |-> row.name, theme |-> row.theme,
              seed |-> row.seed, size |-> row.size,
              created_at |-> row.description, description |-> ""]
    ELSE None

DoGetWorld(ws, objs, world_id) ==
    LET world == FindWorld(ws, world_id) IN
    IF world = None THEN None
    ELSE [id |-> world.id, name |-> world.name, theme |-> world.theme,
          seed |-> world.seed, size |-> world.size,
          objects |-> LoadObjects(objs, world_id),
          created_at |-> world.created_at, description |-> world.description]

(***************************************************************************)
(* The state a call works on: the connection's view of world_objects, the  *)
(* committed world_objects, the clock, the random state, the number of     *)
(* clock readings made by the call, the exception raised (or "ok") and the *)
(* rows the call inserted.                                                 *)
(***************************************************************************)
Begin(objs, dur, t, r) ==
    [objs |-> objs, dur |-> dur, clock |-> t, rng |-> r, n |-> 0,
     exc |-> "ok", added |-> <<>>]

\* A world_objects table without its primary key.
InsertRejected_NoKey(objs, row) == FALSE

\* INSERT INTO world_objects: raises IntegrityError when the id is already a
\* key, appends the row otherwise.
InsertRejected(objs, row) == HasId(objs, row.id)

InsertObject(objs, row) == Append(objs, row)

\* The type check left out.
ValidType_Any(type_) == TRUE

\* if type_ not in OBJECT_TYPES: raise ValueError("Invalid type ...")
ValidType(type_) == type_ \in OBJECT_TYPES

\* if theme not in THEMES: raise ValueError("Invalid theme ...")
ValidTheme(theme) == theme \in THEMES

\* The missing world passed over in silence.
NotFound_Silent(s) == s

\* if not world: raise ValueError("World ... not found")
NotFound(s) == [s EXCEPT !.exc = "NotFound"]

\* add_object with keyword arguments props, the clock advancing
\* by sched[s.n + 1] before it is read.  Of the world get_world returns,
\* add_object, generate_terrain and populate_world read the row's fields
\* and never the objects, so they are given the world without them.
DoAddObject(s, ws, world_id, type_, name, x, y, z, props, sched) ==
    IF s.exc # "ok" THEN s
    ELSE IF ~ValidType(type_) THEN [s EXCEPT !.exc = "InvalidArgument"]
    ELSE LET world == FindWorld(ws, world_id) IN
      IF world = None THEN NotFound(s)
      ELSE
        LET now == s.clock + sched[s.n + 1]
            row == [id |-> ObjId(now), world_id |-> world_id, type |-> type_,
                    name |-> name, x |-> x, y |-> y, z |-> z,
                    scale |-> PropGet(props, "scale", 1),
                    rotation |-> PropGet(props, "rotation", 0),
                    color |-> PropGet(props, "color", THEME_COLORS(world.theme)),
                    properties |-> JsonDumps(props)]
            t == [s EXCEPT !.clock = now, !.n = s.n + 1]
        IN  IF InsertRejected(s.objs, row)
            THEN [t EXCEPT !.exc = "IntegrityError"]
            ELSE LET view == InsertObject(s.objs, row)
                 IN  [t EXCEPT !.objs = view, !.dur = Commit(view, s.dur),
                               !.added = Append(s.added, row)]

(***************************************************************************)
(* generate_terrain                                                        *)
(***************************************************************************)
\* int(world.size / 256): true division, then truncation toward zero.
GridSize(size) ==
    IF size >= 0 THEN size \div TileSize ELSE 0 - ((0 - size) \div TileSize)

\* The call drawing on from wherever the stream stands.
Reseed_Missing(s, seed) == s

\* random.seed(world.seed)
Reseed(s, seed) == [s EXCEPT !.rng = RandomSeed(seed)]

RECURSIVE TerrainLoop(_, _, _, _, _)
\* The cells from the c-th on, row-major (c = i * grid_size + j).
TerrainLoop(s, ws, world, c, sched) ==
    LET g == GridSize(world.size) IN
    IF g <= 0 \/ c >= g * g \/ s.exc # "ok" THEN s
    ELSE LET i == c \div g
             j == c % g
             height == RandInt(s.rng, HeightMin, HeightMax)
             drawn == [s EXCEPT !.rng = RandomStep(s.rng)]
         IN  TerrainLoop(
               DoAddObject(drawn, ws, world.id, "terrain", <<"terrain", i, j>>,
                          i * TileSize, height, j * TileSize,
                          << <<"scale", TileSize>>,
                             <<"color", _get_terrain_color(world.theme)>> >>,
                          sched),
               ws, world, c + 1, sched)

DoGenerateTerrain(s, ws, world_id, sched) ==
    LET world == FindWorld(ws, world_id) IN
    IF world = None THEN NotFound(s)
    ELSE TerrainLoop(Reseed(s, world.seed), ws, world, 0, sched)

\* The number of add_object calls of a complete generate_terrain.
TerrainCount(size) == IF GridSize(size) > 0 THEN GridSize(size) * GridSize(size) ELSE 0

(***************************************************************************)
(* populate_world                                                          *)
(***************************************************************************)
PlaceCount(kind) ==
    CASE kind = "building" -> NumBuildings
      [] kind = "tree" -> NumTrees
      [] kind = "light" -> NumLights

PlaceName(kind, theme, i) ==
    IF kind = "building" THEN <<theme, "building", i>> ELSE <<kind, i>>

PlaceHeight(kind) ==
    CASE kind = "building" -> 20
      [] kind = "tree" -> 5
      [] kind = "light" -> 100

PlaceProps(kind) ==
    CASE kind = "building" -> << <<"scale", 20>> >>
      [] kind = "tree" -> << <<"scale", 5>> >>
      [] kind = "light" -> << <<"scale", 2>>, <<"color", "#FFFF00">> >>

RECURSIVE PlaceLoop(_, _, _, _, _, _)
\* for i in range(count): two draws, then add_object.
PlaceLoop(s, ws, world, kind, i, sched) ==
    IF i >= PlaceCount(kind) \/ s.exc # "ok" THEN s
    ELSE LET x == RandUniform(s.rng, 0, world.size)
             r1 == RandomStep(s.rng)
             z == RandUniform(r1, 0, world.size)
             drawn == [s EXCEPT !.rng = RandomStep(r1)]
         IN  PlaceLoop(
               DoAddObject(drawn, ws, world.id, kind, PlaceName(kind, world.theme, i),
                          x, PlaceHeight(kind), z, PlaceProps(kind), sched),
               ws, world, kind, i + 1, sched)

HasTrees(theme) == theme \notin {"space", "underwater"}

PlaceSpecial(s, ws, world, sched) ==
    CASE world.theme = "cyberpunk" ->
           DoAddObject(s, ws, world.id, "npc", <<"neon_runner">>, 500, 50, 500,
                      << <<"scale", 2>>, <<"color", "#FF00FF">> >>, sched)
      [] world.theme = "fantasy" ->
           DoAddObject(s, ws, world.id, "artifact", <<"ancient_stone">>, 512, 20, 512,
                      << <<"scale", 10>>, <<"color", "#808080">> >>, sched)
      [] world.theme = "space" ->
           DoAddObject(s, ws, world.id, "portal", <<"stargate">>, 512, 100, 512,
                      << <<"scale", 50>>, <<"color", "#00FFFF">> >>, sched)
      [] OTHER -> s

\* The closing conn.commit(), reached when nothing was raised.
FinalCommit(s) ==
    IF s.exc = "ok" THEN [s EXCEPT !.dur = Commit(s.objs, s.dur)] ELSE s

DoPopulateWorld(s, ws, world_id, sched) ==
    LET world == FindWorld(ws, world_id) IN
    IF world = None THEN NotFound(s)
    ELSE
      LET s0 == Reseed(s, world.seed)
          s1 == PlaceLoop(s0, ws, world, "building", 0, sched)
          s2 == IF HasTrees(world.theme)
                THEN PlaceLoop(s1, ws, world, "tree", 0, sched) ELSE s1
          s3 == PlaceLoop(s2, ws, world, "light", 0, sched)
          s4 == PlaceSpecial(s3, ws, world, sched)
      IN  FinalCommit(s4)

\* The number of add_object calls of a complete populate_world.
PopulateCount(theme) ==
    NumBuildings + (IF HasTrees(theme) THEN NumTrees ELSE 0) + NumLights
      + (IF theme \in {"cyberpunk", "fantasy", "space"} THEN 1 ELSE 0)

(***************************************************************************)
(* teleport: INSERT, and UPDATE when the insert hits the composite key.    *)
(***************************************************************************)
InsertPosition(tbl, row) == Append(tbl, row)

UpdatePosition(tbl, row) ==
    [i \in 1..Len(tbl) |->
        IF tbl[i].player_id = row.player_id /\ tbl[i].world_id = row.world_id
        THEN row ELSE tbl[i]]

DoTeleport(tbl, world_id, player_id, x, y, z, now) ==
    LET row == [player_id |-> player_id, world_id |-> world_id,
                x |-> x, y |-> y, z |-> z, teleported_at |-> now]
    IN  IF HasPosition(tbl, player_id, world_id)
        THEN UpdatePosition(tbl, row)
        ELSE InsertPosition(tbl, row)

(***************************************************************************)
(* export_json, export_gltf_stub, list_worlds                              *)
(***************************************************************************)
\* datetime.fromtimestamp(t).isoformat() of a number; of anything else
\* (the description text get_world leaves in created_at) it is a TypeError.
IsTimestamp(t) == DOMAIN t = {"ms"}

IsoFormat(t) == [iso |-> t.ms]

DoExportJson(ws, objs, world_id) ==
    LET world == DoGetWorld(ws, objs, world_id) IN
    IF world = None THEN [exc |-> "NotFound", value |-> None]
    ELSE IF ~IsTimestamp(world.created_at) THEN [exc |-> "TypeError", value |-> None]
    ELSE [exc |-> "ok",
          value |-> [id |-> world.id, name |-> world.name, theme |-> world.theme,
                     seed |-> world.seed, size |-> world.size,
                     objects |-> [i \in 1..Len(world.objects) |->
                        LET obj == world.objects[i] IN
                        [id |-> obj.id, type |-> obj.type, name |-> obj.name,
                         position |-> [x |-> obj.x, y |-> obj.y, z |-> obj.z],
                         scale |-> obj.scale, rotation |-> obj.rotation,
                         color |-> obj.color, properties |-> obj.properties]],
                     created_at |-> IsoFormat(world.created_at)]]

DoExportGltfStub(ws, objs, world_id) ==
    LET world == DoGetWorld(ws, objs, world_id) IN
    IF world = None THEN [exc |-> "NotFound", value |-> None]
    ELSE [exc |-> "ok",
          value |-> [scene |-> 0,
                     scenes |-> << [name |-> world.name,
                                    nodes |-> [i \in 1..Len(world.objects) |-> i - 1]] >>,
                     nodes |-> [i \in 1..Len(world.objects) |->
                        LET obj == world.objects[i] IN
                        [name |-> obj.name,
                         translation |-> <<obj.x, obj.y, obj.z>>,
                         scale |-> <<obj.scale, obj.scale, obj.scale>>]],
                     meshes |-> [i \in 1..Len(world.objects) |-> "primitives"],
                     asset |-> [version |-> "2.0", generator |-> "MetaverseBuilder"]]]

DoListWorlds(ws, objs) ==
    [i \in 1..Len(ws) |->
        [id |-> ws[i].id, name |-> ws[i].name, theme |-> ws[i].theme,
         object_count |-> Len(ObjectsOf(objs, ws[i].id)),
         created_at |-> IsoFormat(ws[i].created_at)]]

(***************************************************************************)
(* The record of a call: history keeps the calls that write, last the most *)
(* recent call of any kind with what it returned or raised.                *)
(***************************************************************************)
Call(op, wid, arg, outcome, added, value) ==
    [op |-> op, wid |-> wid, arg |-> arg, outcome |-> outcome,
     added |-> added, value |-> value, at |-> clock']

Record(call) ==
    /\ history' = Append(history, call)
    /\ last' = call

Durable(ws, objs, pos) ==
    [worlds |-> ws, world_objects |-> objs, player_positions |-> pos]

\* The random state a process starts with is seeded from the system.
RngStart == {5, 23}

Init ==
    /\ worlds = <<>>
    /\ world_objects = <<>>
    /\ player_positions = <<>>
    /\ durable = Durable(<<>>, <<>>, <<>>)
    /\ clock = 0
    /\ rng \in RngStart
    /\ history = <<>>
    /\ last = [op |-> "__init__", wid |-> <<>>, arg |-> <<>>, outcome |-> "ok",
               added |-> <<>>, value |-> None, at |-> 0]

\* seed: Optional[int], <<>> standing for None.
create_world(name, theme, seed, size, d) ==
    LET arg == [name |-> name, theme |-> theme, seed |-> seed, size |-> size] IN
    IF ~ValidTheme(theme)
    THEN /\ UNCHANGED <<store, clock, rng>>
         /\ Record(Call("create_world", <<>>, arg, "InvalidArgument", <<>>, None))
    ELSE
      LET theSeed == IF seed = <<>> THEN RandInt(rng, 1, SeedMax) ELSE seed[1]
          now == clock + d
          row == [id |-> WorldId(now), name |-> name, theme |-> theme,
                  seed |-> theSeed, size |-> size, created_at |-> [ms |-> now],
                  description |-> [text |-> <<"A", theme, "metaverse world">>]]
      IN  /\ Len(worlds) < MaxWorlds
          /\ rng' = IF seed = <<>> THEN RandomStep(rng) ELSE rng
          /\ clock' = now
          /\ UNCHANGED <<world_objects, player_positions>>
          /\ IF HasId(worlds, row.id)
             THEN /\ UNCHANGED <<worlds, durable>>
                  /\ Record(Call("create_world", <<>>, arg, "IntegrityError", <<>>, None))
             ELSE /\ worlds' = Append(worlds, row)
                  /\ durable' = [durable EXCEPT !.worlds = Commit(worlds', @)]
                  /\ Record(Call("create_world", row.id, arg, "ok", <<>>,
                                 [id |-> row.id, name |-> name, theme |-> theme,
                                  seed |-> theSeed, size |-> size, objects |-> <<>>,
                                  created_at |-> [ms |-> now], description |-> ""]))

\* What a call that works on world_objects leaves behind.
Finish(op, wid, arg, s, value) ==
    /\ world_objects' = s.objs
    /\ durable' = [durable EXCEPT !.world_objects = s.dur]
    /\ clock' = s.clock
    /\ rng' = s.rng
    /\ UNCHANGED <<worlds, player_positions>>
    /\ Record(Call(op, wid, arg, s.exc, s.added, value))

add_object(world_id, type_, name, p, props, d) ==
    LET s == DoAddObject(Begin(world_objects, durable.world_objects, clock, rng),
                         worlds, world_id, type_, name, p[1], p[2], p[3], props,
                         <<d>>)
    IN  Finish("add_object", world_id,
               [type |-> type_, name |-> name, p |-> p, props |-> props], s,
               IF s.added # <<>> THEN WorldObject(s.added[1]) ELSE None)

generate_terrain(world_id, sched) ==
    Finish("generate_terrain", world_id, <<>>,
           DoGenerateTerrain(Begin(world_objects, durable.world_objects, clock, rng),
                             worlds, world_id, sched),
           None)

populate_world(world_id, sched) ==
    Finish("populate_world", world_id, <<>>,
           DoPopulateWorld(Begin(world_objects, durable.world_objects, clock, rng),
                           worlds, world_id, sched),
           None)

teleport(world_id, player_id, p, d) ==
    /\ clock' = clock + d
    /\ player_positions' = DoTeleport(player_positions, world_id, player_id,
                                      p[1], p[2], p[3], [ms |-> clock'])
    /\ durable' = [durable EXCEPT !.player_positions = Commit(player_positions', @)]
    /\ UNCHANGED <<worlds, world_objects, rng>>
    /\ Record(Call("teleport", world_id, [player_id |-> player_id, p |-> p], "ok",
                   <<>>, None))

\* The calls that only read.
Read(op, wid, outcome, value) ==
    /\ UNCHANGED <<store, clock, rng, history>>
    /\ last' = Call(op, wid, <<>>, outcome, <<>>, value)

get_world(world_id) ==
    Read("get_world", world_id, "ok", DoGetWorld(worlds, world_objects, world_id))

export_json(world_id) ==
    LET r == DoExportJson(worlds, world_objects, world_id)
    IN  Read("export_json", world_id, r.exc, r.value)

export_gltf_stub(world_id) ==
    LET r == DoExportGltfStub(worlds, world_objects, world_id)
    IN  Read("export_gltf_stub", world_id, r.exc, r.value)

list_worlds ==
    Read("list_worlds", <<>>, "ok", DoListWorlds(worlds, world_objects))

(***************************************************************************)
(* Inputs of the calls.                                                    *)
(***************************************************************************)
MissingWorld == <<"world", 0 - 1>>
WorldIdInputs == { worlds[i].id : i \in 1..Len(worlds) } \cup {MissingWorld}
TypeInputs == {"water", "spaceship"}
PropInputs == {<<>>, << <<"scale", 3>>, <<"hp", 1>> >>}
PlayerInputs == {"p1", "p2"}
PointInputs == {<<1, 2, 3>>, <<4, 5, 6>>}

\* The clock readings a complete call on world_id makes.
TerrainReads(world_id) ==
    LET world == FindWorld(worlds, world_id)
    IN  IF world = None THEN 0 ELSE TerrainCount(world.size)

PopulateReads(world_id) ==
    LET world == FindWorld(worlds, world_id)
    IN  IF world = None THEN 0 ELSE PopulateCount(world.theme)

CallGenerateTerrain ==
    \E world_id \in WorldIdInputs :
       \E sched \in Schedules(TerrainReads(world_id)) :
          generate_terrain(world_id, sched)

CallPopulateWorld ==
    \E world_id \in WorldIdInputs :
       \E sched \in Schedules(PopulateReads(world_id)) :
          populate_world(world_id, sched)

CallAddObject ==
    \E world_id \in WorldIdInputs, type_ \in TypeInputs, props \in PropInputs,
       d \in Ticks :
       add_object(world_id, type_, <<"lake">>, <<1, 2, 3>>, props, d)

CallTeleport(players) ==
    \E world_id \in WorldIdInputs, player_id \in players, p \in PointInputs,
       d \in Ticks :
       teleport(world_id, player_id, p, d)

CallCreateWorld(themes, seeds, sizes) ==
    \E theme \in themes, seed \in seeds, size \in sizes, d \in Ticks :
       create_world("Aurora", theme, seed, size, d)

(***************************************************************************)
(* Spec: the five calls that write.                                        *)
(***************************************************************************)
Next ==
    \/ Len(history) < MaxCalls /\ CallCreateWorld({"space", "medieval"}, {<<>>, <<42>>}, {300})
    \/ Len(history) < MaxCalls /\ CallAddObject
    \/ Len(history) < MaxCalls /\ CallGenerateTerrain
    \/ Len(history) < MaxCalls /\ CallPopulateWorld
    \/ Len(history) < MaxCalls /\ CallTeleport(PlayerInputs)

Spec == Init /\ [][Next]_vars

(***************************************************************************)
(* SpecRead: every call, the reading ones included.                        *)
(***************************************************************************)
NextRead ==
    \/ Len(history) < MaxReadCalls /\ CallCreateWorld({"underwater", "medieval"}, {<<42>>}, {300})
    \/ Len(history) < MaxReadCalls /\ CallAddObject
    \/ Len(history) < MaxReadCalls /\ CallGenerateTerrain
    \/ Len(history) < MaxReadCalls /\ CallPopulateWorld
    \/ Len(history) < MaxReadCalls /\ CallTeleport({"p1"})
    \/ \E world_id \in WorldIdInputs : get_world(world_id)
    \/ \E world_id \in WorldIdInputs : export_json(world_id)
    \/ \E world_id \in WorldIdInputs : export_gltf_stub(world_id)
    \/ list_worlds

SpecRead == Init /\ [][NextRead]_vars

(***************************************************************************)
(* SpecTeleport: worlds and teleports.                                     *)
(***************************************************************************)
NextTeleport ==
    \/ Len(history) < MaxTeleports /\ Len(worlds) < 1
         /\ CallCreateWorld({"arctic"}, {<<42>>}, {300})
    \/ Len(history) < MaxTeleports /\ CallTeleport(PlayerInputs)

SpecTeleport == Init /\ [][NextTeleport]_vars

(***************************************************************************)
(* SpecGen: worlds of every kind of theme, terrain and population.         *)
(***************************************************************************)
GenThemes == {"cyberpunk", "fantasy", "space", "underwater", "arctic"}

NextGen ==
    \/ Len(history) < MaxGenCalls /\ CallCreateWorld(GenThemes, {<<>>, <<42>>}, {512})
    \/ Len(history) < MaxGenCalls /\ CallGenerateTerrain
    \/ Len(history) < MaxGenCalls /\ CallPopulateWorld

SpecGen == Init /\ [][NextGen]_vars

(***************************************************************************)
(* SpecTerrain: worlds and terrain.                                        *)
(***************************************************************************)
NextTerrain ==
    \/ Len(history) < MaxTerrainCalls
         /\ CallCreateWorld({"arctic", "space"}, {<<>>, <<42>>}, {100, 512})
    \/ Len(history) < MaxTerrainCalls /\ CallGenerateTerrain

SpecTerrain == Init /\ [][NextTerrain]_vars

(***************************************************************************)
(* Properties.                                                             *)
(***************************************************************************)
\* The entries of history that satisfy Test, in order.
Calls(Test(_)) == SelectSeq(history, Test)

\* C4 - Enum enforcement: create_world with a theme outside THEMES and
\* add_object with a type outside OBJECT_TYPES fail with InvalidArgument, and
\* the three tables (the connection's view and the committed state) are the
\* same after the call as before it.
C4_EnumEnforcement ==
    [][ /\ (last'.op = "create_world" /\ last'.arg.theme \notin THEMES)
            => (last'.outcome = "InvalidArgument" /\ UNCHANGED store)
        /\ (last'.op = "add_object" /\ last'.arg.type \notin OBJECT_TYPES)
            => (last'.outcome = "InvalidArgument" /\ UNCHANGED store) ]_vars

\* A rejected create_world and a rejected add_object on a world that exists.
C4_Witness ==
    /\ \E i \in 1..Len(history) :
          /\ history[i].op = "create_world"
          /\ history[i].outcome = "InvalidArgument"
    /\ last.op = "add_object"
    /\ last.arg.type = "spaceship"
    /\ last.outcome = "InvalidArgument"
    /\ HasId(worlds, last.wid)

\* C8 - Store validity: every stored world has a theme of THEMES, every
\* stored object has a type of OBJECT_TYPES and a world id that resolves to
\* a stored world, and no two stored objects of one world share an id.
C8_StoreValid ==
    /\ \A i \in 1..Len(worlds) : worlds[i].theme \in THEMES
    /\ \A i \in 1..Len(world_objects) :
          /\ world_objects[i].type \in OBJECT_TYPES
          /\ HasId(worlds, world_objects[i].world_id)
    /\ \A i, j \in 1..Len(world_objects) :
          (i # j /\ world_objects[i].world_id = world_objects[j].world_id)
             => world_objects[i].id # world_objects[j].id

\* An insert was rejected for its id while the table holds objects.
C8_Witness ==
    /\ Len(world_objects) >= 2
    /\ last.outcome = "IntegrityError"
    /\ last.op \in {"add_object", "populate_world"}

\* The calls that look the world up before anything else (add_object does
\* so once the type has passed).
LooksWorldUp(call) ==
    \/ call.op \in {"generate_terrain", "populate_world", "export_json",
                    "export_gltf_stub"}
    \/ call.op = "add_object" /\ call.arg.type \in OBJECT_TYPES

\* The calls that take a world id.
TakesWorldId(call) ==
    call.op \in {"add_object", "generate_terrain", "populate_world",
                 "export_json", "export_gltf_stub", "get_world", "teleport"}

\* C5 as stated - NotFound: every operation that references a world id fails
\* with NotFound when no stored world has that id and leaves the store
\* unchanged (add_object with a valid type), get_world returning None
\* instead of raising.
C5_Original ==
    [][ (TakesWorldId(last') /\ ~HasId(worlds, last'.wid)
           /\ (last'.op = "add_object" => last'.arg.type \in OBJECT_TYPES))
        => IF last'.op = "get_world"
           THEN last'.outcome = "ok" /\ last'.value = None /\ UNCHANGED store
           ELSE last'.outcome = "NotFound" /\ UNCHANGED store ]_vars

\* C5 amended - NotFound: every operation that first looks the world up
\* (add_object with a valid type, generate_terrain, populate_world,
\* export_json, export_gltf_stub) fails with NotFound on an id no stored
\* world has and leaves the store unchanged; get_world returns None instead
\* of raising.  teleport makes no lookup: on such an id it succeeds.
C5_NotFound ==
    [][ /\ (LooksWorldUp(last') /\ ~HasId(worlds, last'.wid))
           => (last'.outcome = "NotFound" /\ last'.added = <<>> /\ UNCHANGED store)
        /\ (last'.op = "get_world" /\ ~HasId(worlds, last'.wid))
           => (last'.outcome = "ok" /\ last'.value = None /\ UNCHANGED store)
        /\ (last'.op = "teleport" /\ ~HasId(worlds, last'.wid))
           => last'.outcome = "ok" ]_vars

\* populate_world was refused on a missing id while a world with objects is
\* stored.
C5_Witness ==
    /\ last.op = "populate_world"
    /\ last.wid = MissingWorld
    /\ last.outcome = "NotFound"
    /\ Len(worlds) > 0
    /\ Len(world_objects) > 0

\* The teleport calls made so far.
IsTeleport(call) == call.op = "teleport"

Teleports == Calls(IsTeleport)

PositionRows(player_id, world_id) ==
    { i \in 1..Len(player_positions) :
        /\ player_positions[i].player_id = player_id
        /\ player_positions[i].world_id = world_id }

\* C6 - Teleport upsert: player_positions holds exactly one row for each
\* (player, world) pair that was teleported and none for any other pair; the
\* row holds the coordinates and the timestamp of the pair's latest teleport;
\* no teleport raised.
C6_TeleportUpsert ==
    LET t == Teleports IN
    /\ \A i \in 1..Len(t) : t[i].outcome = "ok"
    /\ \A i \in 1..Len(player_positions) :
          \E k \in 1..Len(t) :
             /\ t[k].arg.player_id = player_positions[i].player_id
             /\ t[k].wid = player_positions[i].world_id
    /\ \A k \in 1..Len(t) :
          LET rows == PositionRows(t[k].arg.player_id, t[k].wid)
              Later(m) == /\ m > k
                          /\ t[m].arg.player_id = t[k].arg.player_id
                          /\ t[m].wid = t[k].wid
          IN  /\ Cardinality(rows) = 1
              /\ (~\E m \in 1..Len(t) : Later(m))
                    => \A i \in rows :
                          /\ player_positions[i].x = t[k].arg.p[1]
                          /\ player_positions[i].y = t[k].arg.p[2]
                          /\ player_positions[i].z = t[k].arg.p[3]
                          /\ player_positions[i].teleported_at = [ms |-> t[k].at]
    /\ durable.player_positions = player_positions

\* A pair teleported twice to different points at different times, and
\* another pair teleported too.
C6_Witness ==
    LET t == Teleports IN
    \E k, m, n \in 1..Len(t) :
       /\ k < m
       /\ t[k].arg.player_id = t[m].arg.player_id
       /\ t[k].wid = t[m].wid
       /\ t[k].arg.p # t[m].arg.p
       /\ t[k].at # t[m].at
       /\ t[n].arg.player_id # t[k].arg.player_id

\* The stored row of a world that exists.
WorldRow(world_id) == worlds[CHOOSE i \in 1..Len(worlds) : worlds[i].id = world_id]

\* The generate_terrain and populate_world calls made on a world, in order.
GenCalls(world_id) ==
    LET Test(call) == /\ call.op \in {"generate_terrain", "populate_world"}
                      /\ call.wid = world_id
    IN  Calls(Test)

\* What an object is, apart from its id and its world.
Strip(r) ==
    [type |-> r.type, name |-> r.name, x |-> r.x, y |-> r.y, z |-> r.z,
     scale |-> r.scale, rotation |-> r.rotation, color |-> r.color]

\* C1 - Grid completeness: generate_terrain on a stored world of size S that
\* has no objects succeeds and adds exactly floor(S/256)^2 objects, one per
\* pair (i, j) with 0 <= i, j < floor(S/256): type terrain, name
\* terrain_i_j, position (256*i, h, 256*j) with h in [-10, 50], scale 256
\* (none, and no error, when S < 256).
C1_GridComplete ==
    [][ (/\ last'.op = "generate_terrain"
         /\ HasId(worlds, last'.wid)
         /\ ObjectsOf(world_objects, last'.wid) = <<>>)
        => LET g == WorldRow(last'.wid).size \div 256
               a == last'.added
           IN  /\ last'.outcome = "ok"
               /\ Len(a) = g * g
               /\ ObjectsOf(world_objects', last'.wid) = a
               /\ \A i, j \in 0..(g - 1) :
                     \E k \in 1..Len(a) :
                        /\ a[k].name = <<"terrain", i, j>>
                        /\ a[k].type = "terrain"
                        /\ a[k].x = 256 * i
                        /\ a[k].z = 256 * j
                        /\ a[k].y \in (0 - 10)..50
                        /\ a[k].scale = 256 ]_vars

\* C2 - Population counts: populate_world on a stored world succeeds and adds
\* 8 buildings, then 15 trees unless the theme is space or underwater, then
\* 4 lights, then one special object for cyberpunk (npc at (500,50,500)),
\* fantasy (artifact at (512,20,512)) and space (portal at (512,100,512))
\* and none for the other themes.
C2_PopulationCounts ==
    [][ (last'.op = "populate_world" /\ HasId(worlds, last'.wid))
        => LET theme == WorldRow(last'.wid).theme
               a == last'.added
               nT == IF theme \in {"space", "underwater"} THEN 0 ELSE 15
               nS == IF theme \in {"cyberpunk", "fantasy", "space"} THEN 1 ELSE 0
           IN  /\ last'.outcome = "ok"
               /\ Len(a) = 8 + nT + 4 + nS
               /\ \A k \in 1..Len(a) :
                     a[k].type =
                        IF k <= 8 THEN "building"
                        ELSE IF k <= 8 + nT THEN "tree"
                        ELSE IF k <= 12 + nT THEN "light"
                        ELSE CASE theme = "cyberpunk" -> "npc"
                               [] theme = "fantasy" -> "artifact"
                               [] theme = "space" -> "portal"
               /\ nS = 1 =>
                     <<a[Len(a)].x, a[Len(a)].y, a[Len(a)].z>> =
                        CASE theme = "cyberpunk" -> <<500, 50, 500>>
                          [] theme = "fantasy" -> <<512, 20, 512>>
                          [] theme = "space" -> <<512, 100, 512>> ]_vars

\* C3 - Determinism: two freshly created worlds of the same theme, seed and
\* size on each of which generate_terrain ran once hold the same objects
\* (count, names, coordinates, scales, colors), whatever happened between the
\* two runs.
C3_Determinism ==
    \A m, n \in 1..Len(worlds) :
       LET w1 == worlds[m]
           w2 == worlds[n]
           Once(w) == /\ Len(GenCalls(w.id)) = 1
                      /\ GenCalls(w.id)[1].op = "generate_terrain"
           Objects(w) == { Strip(r) : r \in Range(ObjectsOf(world_objects, w.id)) }
       IN  (/\ m # n
            /\ w1.theme = w2.theme /\ w1.seed = w2.seed /\ w1.size = w2.size
            /\ Once(w1) /\ Once(w2))
           => /\ Len(ObjectsOf(world_objects, w1.id)) = Len(ObjectsOf(world_objects, w2.id))
              /\ Objects(w1) = Objects(w2)

\* C7 - Round-trip count: for a world that was created, given terrain and
\* populated, get_world and list_worlds report as many objects as the two
\* calls added, and for create_world("Aurora", "arctic", seed=42, size=512)
\* that number is 4 + 8 + 15 + 4 = 31.
C7_RoundTrip ==
    \A n \in 1..Len(worlds) :
       LET w == worlds[n]
           g == GenCalls(w.id)
           loaded == DoGetWorld(worlds, world_objects, w.id)
           listed == DoListWorlds(worlds, world_objects)[n]
       IN  (/\ Len(g) = 2
            /\ g[1].op = "generate_terrain"
            /\ g[2].op = "populate_world")
           => /\ Len(loaded.objects) = Len(g[1].added) + Len(g[2].added)
              /\ listed.object_count = Len(loaded.objects)
              /\ (w.name = "Aurora" /\ w.theme = "arctic" /\ w.seed = 42 /\ w.size = 512)
                    => Len(loaded.objects) = 31

\* C9 - Partial failure: when generate_terrain or populate_world fails on a
\* rejected insert, every object the call inserted before the failure is
\* committed and visible to get_world, in insertion order after the objects
\* stored before; nothing is rolled back, and nothing is retried: the call
\* stopped short of a complete run.
C9_PartialFailure ==
    [][ (/\ last'.op \in {"generate_terrain", "populate_world"}
         /\ last'.outcome = "IntegrityError")
        => LET a == last'.added
               w == WorldRow(last'.wid)
               loaded == DoGetWorld(worlds', world_objects', last'.wid)
               before == DoGetWorld(worlds, world_objects, last'.wid)
               full == IF last'.op = "generate_terrain"
                       THEN (w.size \div 256) * (w.size \div 256)
                       ELSE (IF w.theme \in {"space", "underwater"} THEN 12 ELSE 27)
                            + (IF w.theme \in {"cyberpunk", "fantasy", "space"}
                               THEN 1 ELSE 0)
           IN  /\ world_objects' = world_objects \o a
               /\ durable'.world_objects = world_objects'
               /\ loaded.objects =
                     before.objects \o [k \in 1..Len(a) |-> WorldObject(a[k])]
               /\ Len(a) < full ]_vars

\* populate_world failed after it had inserted objects into a world that
\* held objects already.
C9_Witness ==
    /\ last.op = "populate_world"
    /\ last.outcome = "IntegrityError"
    /\ Len(last.added) >= 2
    /\ Len(ObjectsOf(world_objects, last.wid)) > Len(last.added)
    /\ durable.world_objects = world_objects

RECURSIVE Affine(_)
\* k draws take the state r to (A * r + C) % RngMod: the pair <<A, C>>, by
\* halving k.
Affine(k) ==
    IF k <= 0 THEN <<1, 0>>
    ELSE LET h == Affine(k \div 2)
             sq == <<(h[1] * h[1]) % RngMod, (h[1] * h[2] + h[2]) % RngMod>>
             inc == RandomStep(0)
             mul == (RandomStep(1) - RandomStep(0)) % RngMod
         IN  IF k % 2 = 0 THEN sq
             ELSE <<(mul * sq[1]) % RngMod, (mul * sq[2] + inc) % RngMod>>

\* The state of the random source k draws after seed(seed).
Draws(seed, k) ==
    LET f == Affine(k) IN (f[1] * RandomSeed(seed) + f[2]) % RngMod

\* The n-th object (n >= 1) of a population of a world of that theme, seed
\* and size, drawn from a stream that starts at the seed: building i takes
\* the draws 2i+1 and 2i+2, the trees follow if the theme has trees, then
\* the lights, then the special object.
Expected(theme, seed, size, n) ==
    LET nT == IF theme \in {"space", "underwater"} THEN 0 ELSE 15
        At(draw) == RandUniform(Draws(seed, draw - 1), 0, size)
        Placed(type_, name, first, y) ==
            [type |-> type_, name |-> name, x |-> At(first), y |-> y,
             z |-> At(first + 1)]
    IN  IF n <= 8 THEN Placed("building", <<theme, "building", n - 1>>, 2 * n - 1, 20)
        ELSE IF n <= 8 + nT THEN Placed("tree", <<"tree", n - 9>>, 2 * n - 1, 5)
        ELSE IF n <= 12 + nT THEN Placed("light", <<"light", n - 9 - nT>>, 2 * n - 1, 100)
        ELSE CASE theme = "cyberpunk" ->
                    [type |-> "npc", name |-> <<"neon_runner">>,
                     x |-> 500, y |-> 50, z |-> 500]
               [] theme = "fantasy" ->
                    [type |-> "artifact", name |-> <<"ancient_stone">>,
                     x |-> 512, y |-> 20, z |-> 512]
               [] theme = "space" ->
                    [type |-> "portal", name |-> <<"stargate">>,
                     x |-> 512, y |-> 100, z |-> 512]

====
